---- MODULE Spec2Model ----
(***************************************************************************)
(* Worker-extension request piping of frankenphp.                          *)
(*                                                                         *)
(* A worker handle (defaultWorker of workerextension.go, or the            *)
(* mockWorkerExtension of the WorkerExtension API of threadFramework.go)   *)
(* owns a channel of pending WorkerRequests.  Every thread activated for   *)
(* the worker runs a pipe loop (startWorker, resp.                         *)
(* startExternalWorkerPipe) that pulls a request with ProvideRequest,      *)
(* adapts it into a frankenPHPContext, pushes the context onto the         *)
(* worker's dispatch channel (w.requestChan) and spawns a goroutine that   *)
(* waits for fc.done and then calls the request's AfterFunc.               *)
(***************************************************************************)
EXTENDS Integers, Sequences, FiniteSets, TLC

\* ---------------------------------------------------------------- bounds
NumThreads == 2
MaxReq == 2
MaxMinThreads == 1
MaxReturn == 2
NumCallers == 3
MaxBudget == 2
MaxFed == 2

Threads == 1..NumThreads
ReqIds == 1..MaxReq
ReturnValues == 1..MaxReturn
Callers == 1..NumCallers

\* The names workers are registered under.
Names == {"a", "b"}

\* The two pipe-loop implementations of the repository.
Impls == {"startWorker", "startExternalWorkerPipe"}

\* What rq.Request can be: a nil *http.Request, a request for which
\* NewRequestWithContext returns an error, a request whose context carries
\* no frankenPHPContext (fromContext returns !ok), or a well-formed request.
Payloads == {"nil", "malformed", "noctx", "ok"}

\* A nil *WorkerRequest.
NilRequest ==
    [ptr |-> "nil", Request |-> "nil", Response |-> 0,
     CallbackParameters |-> 0, AfterFunc |-> FALSE]

\* The values request number id can take: nil, or a WorkerRequest struct
\* with its own response writer and callback parameters.
WorkerRequest(id) ==
    {NilRequest} \cup
    {[ptr |-> "set", Request |-> p, Response |-> 100 + id,
      CallbackParameters |-> 200 + id, AfterFunc |-> a] :
        p \in Payloads, a \in BOOLEAN}

\* The frankenPHPContext of a request that has none (yet).
NoContext ==
    [exists |-> FALSE, synthetic |-> FALSE, worker |-> "", responseWriter |-> 0,
     handlerParameters |-> 0, done |-> FALSE, handlerReturn |-> 0]

\* newFrankenPHPContext(): an empty context with an open done channel.
newFrankenPHPContext ==
    [exists |-> TRUE, synthetic |-> TRUE, worker |-> "", responseWriter |-> 0,
     handlerParameters |-> 0, done |-> FALSE, handlerReturn |-> 0]

\* NewRequestWithContext(rq.Request, ...) followed by fromContext: the
\* context of a well-formed request.
NewRequestWithContext ==
    [exists |-> TRUE, synthetic |-> FALSE, worker |-> "", responseWriter |-> 0,
     handlerParameters |-> 0, done |-> FALSE, handlerReturn |-> 0]

\* No worker: the value of a map entry that does not exist.
NoWorker == [name |-> "", minThreads |-> 0, handle |-> 0]

\* NewWorker(name, fileName, minThreads, env): a fresh handle; `handle`
\* stands for the pointer, distinct for every call.
NewWorker(name, n, h) == [name |-> name, minThreads |-> n, handle |-> h]

\* The workers caller c can pass to RegisterWorker.
Workers(c) == {NewWorker(name, n, c) : name \in Names, n \in 0..MaxMinThreads}

VARIABLES
    impl,            \* which pipe loop (and which worker handle) is in use
    minThreads,      \* the worker's GetMinThreads()
    reqs,            \* reqs[id]: the WorkerRequest passed to InjectRequest
    nextId,          \* number of the next InjectRequest call
    requestChan,     \* the handle's channel: [buf, sendq] of request ids
    injRet,          \* ids whose InjectRequest call has returned
    retBefore,       \* retBefore[id]: injRet when InjectRequest(id) started
    pc,              \* pc[t]: position of thread t's pipe loop
    rq,              \* rq[t]: the request the loop of t holds (0: none)
    provided,        \* ids in the order ProvideRequest returned them
    by,              \* by[id]: the thread whose ProvideRequest returned id
    fc,              \* fc[id]: the frankenPHPContext built for request id
    wRequestChan,    \* ids of the contexts in `w.requestChan <- fc`, in order
    delivered,       \* ids in the order the engine received their context
    waiter,          \* waiter[id]: state of the goroutine spawned for id
    afterCalls,      \* afterCalls[id]: number of AfterFunc invocations
    afterArg,        \* afterArg[id]: the value AfterFunc was called with
    completed,       \* ids in the order the engine closed their fc.done
    activatedCount,  \* defaultWorker.activatedCount
    drainCount,      \* defaultWorker.drainCount
    life,            \* life[t]: lifecycle state of the thread-worker pairing
    skipped,         \* skipped[t]: t was deactivated without a drain
    extensionWorkers,      \* the registry: extensionWorkers[name]
    extensionWorkersMutex, \* the caller holding the mutex (0: unlocked)
    regPc,           \* regPc[c]: position of caller c in RegisterWorker
    regArg,          \* regArg[c]: the worker c passes to RegisterWorker
    locked,          \* callers in the order their Lock() returned
    registered,      \* callers in the order their RegisterWorker returned
    pool,            \* state of the thread pool's startup
    numThreads,      \* the pool's total thread budget
    reserved,        \* reserved[name]: threads activated for the worker
    fed,             \* the values ProvideRequest returns to both loops
    ret,             \* ret[k]: what the engine returns for the k-th value
    loopPos,         \* loopPos[i]: how many values loop i has been through
    loopPanic,       \* loopPanic[i]: loop i has panicked
    pushed,          \* pushed[i]: the contexts loop i pushed, in order
    called           \* called[i]: the AfterFunc calls <<k, value>> of loop i

vars ==
    <<impl, minThreads, reqs, nextId, requestChan, injRet, retBefore, pc, rq,
      provided, by, fc, wRequestChan, delivered, waiter, afterCalls, afterArg,
      completed, activatedCount, drainCount, life, skipped, extensionWorkers,
      extensionWorkersMutex, regPc, regArg, locked, registered, pool,
      numThreads,
      reserved, fed, ret, loopPos, loopPanic, pushed, called>>

pipeVars ==
    <<reqs, nextId, requestChan, injRet, retBefore, rq, provided, by, fc,
      wRequestChan, delivered, waiter, afterCalls, afterArg, completed>>

lifeVars == <<activatedCount, drainCount, life, skipped>>

regVars ==
    <<extensionWorkers, extensionWorkersMutex, regPc, regArg, locked,
      registered>>

poolVars == <<pool, numThreads, reserved>>

eqVars == <<fed, ret, loopPos, loopPanic, pushed, called>>

\* ------------------------------------------------------------- channels
\* A default worker whose channel is buffered like the mock's.
CapacityBuffered == minThreads

\* make(chan *WorkerRequest) in NewWorker is unbuffered; the mock worker
\* extension makes its channel with capacity minThreads.
Capacity == IF impl = "startWorker" THEN 0 ELSE minThreads

\* A send that drops the value when the buffer is full (select/default).
ChanSendDropping(ch, cap, v) ==
    IF Len(ch.buf) < cap
    THEN [ch EXCEPT !.buf = Append(@, v)]
    ELSE ch

\* ch <- v: v goes into the buffer when there is room, else the sender
\* blocks in the channel's queue of senders.
ChanSend(ch, cap, v) ==
    IF Len(ch.buf) < cap
    THEN [ch EXCEPT !.buf = Append(@, v)]
    ELSE [ch EXCEPT !.sendq = Append(@, v)]

\* Whether a send of this moment returns without blocking.
SendReturns(ch, cap) == Len(ch.buf) < cap

\* Whether <-ch returns: a value is buffered or a sender is blocked.
CanRecv(ch) == Len(ch.buf) > 0 \/ Len(ch.sendq) > 0

\* A receive that serves a blocked sender before the buffer.
ChanRecvSenderFirst(ch) ==
    IF Len(ch.sendq) > 0
    THEN [value |-> Head(ch.sendq),
          chan |-> [buf |-> ch.buf, sendq |-> Tail(ch.sendq)],
          released |-> {Head(ch.sendq)}]
    ELSE [value |-> Head(ch.buf),
          chan |-> [buf |-> Tail(ch.buf), sendq |-> ch.sendq],
          released |-> {}]

\* <-ch: the value received (the oldest buffered value, or that of the
\* oldest blocked sender), the channel afterwards, and the sender the
\* receive releases (its value takes the freed slot of the buffer).
ChanRecv(ch) ==
    IF Len(ch.buf) > 0
    THEN IF Len(ch.sendq) > 0
         THEN [value |-> Head(ch.buf),
               chan |-> [buf |-> Append(Tail(ch.buf), Head(ch.sendq)),
                         sendq |-> Tail(ch.sendq)],
               released |-> {Head(ch.sendq)}]
         ELSE [value |-> Head(ch.buf),
               chan |-> [buf |-> Tail(ch.buf), sendq |-> ch.sendq],
               released |-> {}]
    ELSE [value |-> Head(ch.sendq),
          chan |-> [buf |-> ch.buf, sendq |-> Tail(ch.sendq)],
          released |-> {Head(ch.sendq)}]

\* Helpers on the recorded histories.
InSeq(s, x) == \E i \in 1..Len(s) : s[i] = x
Occ(s, x) == Cardinality({i \in 1..Len(s) : s[i] = x})
Pos(s, x) == CHOOSE i \in 1..Len(s) : s[i] = x
Min(a, b) == IF a < b THEN a ELSE b

\* ----------------------------------------------------------------- Init
\* A Go panic in any goroutine ends the process.
Panicked == \E t \in Threads : pc[t] = "panic"

Init ==
    /\ impl \in Impls
    /\ minThreads \in 1..MaxMinThreads
    /\ reqs = [id \in ReqIds |-> NilRequest]
    /\ nextId = 1
    /\ requestChan = [buf |-> <<>>, sendq |-> <<>>]
    /\ injRet = {}
    /\ retBefore = [id \in ReqIds |-> {}]
    /\ pc = [t \in Threads |-> "off"]
    /\ rq = [t \in Threads |-> 0]
    /\ provided = <<>>
    /\ by = [id \in ReqIds |-> 0]
    /\ fc = [id \in ReqIds |-> NoContext]
    /\ wRequestChan = <<>>
    /\ delivered = <<>>
    /\ waiter = [id \in ReqIds |-> "none"]
    /\ afterCalls = [id \in ReqIds |-> 0]
    /\ afterArg = [id \in ReqIds |-> 0]
    /\ completed = <<>>
    /\ activatedCount = 0
    /\ drainCount = 0
    /\ life = [t \in Threads |-> "Inactive"]
    /\ skipped = [t \in Threads |-> FALSE]
    /\ extensionWorkers = [n \in Names |-> NoWorker]
    /\ extensionWorkersMutex = 0
    /\ regPc = [c \in Callers |-> "idle"]
    /\ regArg = [c \in Callers |-> NoWorker]
    /\ locked = <<>>
    /\ registered = <<>>
    /\ pool = "stopped"
    /\ numThreads = 0
    /\ reserved = [n \in Names |-> 0]
    /\ fed = <<>>
    /\ ret = <<>>
    /\ loopPos = [i \in Impls |-> 0]
    /\ loopPanic = [i \in Impls |-> FALSE]
    /\ pushed = [i \in Impls |-> <<>>]
    /\ called = [i \in Impls |-> {}]

\* ------------------------------------------------------- work producers
\* InjectRequest(r): `w.requestChan <- r`.  The call returns at once when
\* the buffer has room; otherwise it blocks until a receive releases it.
InjectRequest(r) ==
    /\ ~Panicked
    /\ nextId <= MaxReq
    /\ reqs' = [reqs EXCEPT ![nextId] = r]
    /\ nextId' = nextId + 1
    /\ retBefore' = [retBefore EXCEPT ![nextId] = injRet]
    /\ requestChan' = ChanSend(requestChan, Capacity, nextId)
    /\ injRet' = IF SendReturns(requestChan, Capacity)
                 THEN injRet \cup {nextId} ELSE injRet
    /\ UNCHANGED <<impl, minThreads, pc, rq, provided, by, fc, wRequestChan,
                   delivered, waiter, afterCalls, afterArg>>
    /\ UNCHANGED completed
    /\ UNCHANGED lifeVars
    /\ UNCHANGED <<regVars, poolVars, eqVars>>

\* ------------------------------------------------------------ pipe loop
\* A loop that stops pulling work once its thread was told to drain.
ProvideRequestUnlessDraining(t) ==
    /\ ~Panicked
    /\ pc[t] = "provide"
    /\ life[t] # "Draining"
    /\ CanRecv(requestChan)
    /\ LET got == ChanRecv(requestChan) IN
         /\ rq' = [rq EXCEPT ![t] = got.value]
         /\ provided' = Append(provided, got.value)
         /\ by' = [by EXCEPT ![got.value] = t]
         /\ injRet' = injRet \cup got.released
         /\ requestChan' = got.chan
    /\ pc' = [pc EXCEPT ![t] = "adapt"]
    /\ UNCHANGED <<impl, minThreads, reqs, nextId, retBefore, fc, wRequestChan,
                   delivered, waiter, afterCalls, afterArg>>
    /\ UNCHANGED completed
    /\ UNCHANGED lifeVars
    /\ UNCHANGED <<regVars, poolVars, eqVars>>

\* rq := extensionWorker.ProvideRequest(): `return <-w.requestChan`.
ProvideRequest(t) ==
    /\ ~Panicked
    /\ pc[t] = "provide"
    /\ CanRecv(requestChan)
    /\ LET got == ChanRecv(requestChan) IN
         /\ rq' = [rq EXCEPT ![t] = got.value]
         /\ provided' = Append(provided, got.value)
         /\ by' = [by EXCEPT ![got.value] = t]
         /\ injRet' = injRet \cup got.released
         /\ requestChan' = got.chan
    /\ pc' = [pc EXCEPT ![t] = "adapt"]
    /\ UNCHANGED <<impl, minThreads, reqs, nextId, retBefore, fc, wRequestChan,
                   delivered, waiter, afterCalls, afterArg>>
    /\ UNCHANGED completed
    /\ UNCHANGED lifeVars
    /\ UNCHANGED <<regVars, poolVars, eqVars>>

\* startWorker without the two `continue` statements.
startWorkerOutcomeNoContinue(r) ==
    IF r.ptr = "nil" THEN "panic" ELSE "push"

\* The body of startWorker between ProvideRequest and the push: "panic"
\* (rq.Request on a nil rq), "continue" (the unit is dropped) or "push".
startWorkerOutcome(r) ==
    IF r.ptr = "nil" THEN "panic"
    ELSE IF r.Request = "nil" THEN "push"
    ELSE IF r.Request = "malformed" THEN "continue"
    ELSE IF r.Request = "noctx" THEN "continue"
    ELSE "push"

\* The context startWorker pushes for r.
startWorkerContext(r) ==
    [(IF r.Request = "nil" THEN newFrankenPHPContext ELSE NewRequestWithContext)
        EXCEPT !.worker = "w",
               !.responseWriter = r.Response,
               !.handlerParameters = r.CallbackParameters]

\* The body of startExternalWorkerPipe between ProvideRequest and the push.
startExternalWorkerPipeOutcome(r) ==
    IF r.ptr = "nil" \/ r.Request = "nil" THEN "continue"
    ELSE IF r.Request = "malformed" THEN "continue"
    ELSE IF r.Request = "noctx" THEN "continue"
    ELSE "push"

\* The context startExternalWorkerPipe pushes for r.
startExternalWorkerPipeContext(r) ==
    [NewRequestWithContext
        EXCEPT !.worker = "w",
               !.responseWriter = r.Response,
               !.handlerParameters = r.CallbackParameters]

\* A push handed to a goroutine of its own (go func() { ch <- fc }()): the
\* loop goes on at once and a later push can overtake an earlier one.
PushDetached(q, id) == [chan |-> <<id>> \o q, pc |-> "provide"]

\* A push onto a dispatch channel with room to spare: the send returns
\* before the engine has received the context.
PushBuffered(q, id) == [chan |-> Append(q, id), pc |-> "sent"]

\* `w.requestChan <- fc` is a blocking send on an unbuffered channel: the
\* context joins the channel's queue of senders and the loop stays in the
\* send until the engine receives.
Push(q, id) == [chan |-> Append(q, id), pc |-> "push"]

\* The outcome of the pipe loop in use.
Outcome(r) ==
    IF impl = "startWorker" THEN startWorkerOutcome(r)
    ELSE startExternalWorkerPipeOutcome(r)

\* The context the pipe loop in use pushes.
Context(r) ==
    IF impl = "startWorker" THEN startWorkerContext(r)
    ELSE startExternalWorkerPipeContext(r)

\* The loop of t turns the request it holds into a context and blocks in
\* `w.requestChan <- fc`, or drops the request, or panics.
Adapt(t) ==
    /\ ~Panicked
    /\ pc[t] = "adapt"
    /\ LET o == Outcome(reqs[rq[t]]) IN
         /\ pc' = [pc EXCEPT ![t] = IF o = "push"
                                    THEN Push(wRequestChan, rq[t]).pc
                                    ELSE IF o = "panic" THEN "panic"
                                    ELSE "provide"]
         /\ fc' = IF o = "push"
                  THEN [fc EXCEPT ![rq[t]] = Context(reqs[rq[t]])] ELSE fc
         /\ wRequestChan' = IF o = "push"
                            THEN Push(wRequestChan, rq[t]).chan
                            ELSE wRequestChan
         /\ rq' = IF o = "continue" THEN [rq EXCEPT ![t] = 0] ELSE rq
    /\ UNCHANGED <<impl, minThreads, reqs, nextId, requestChan, injRet,
                   retBefore, provided, by, delivered, waiter, afterCalls,
                   afterArg>>
    /\ UNCHANGED completed
    /\ UNCHANGED lifeVars
    /\ UNCHANGED <<regVars, poolVars, eqVars>>

\* The engine receives from the dispatch channel: it gets the context of
\* the oldest blocked send, and that send returns.
EngineReceive ==
    /\ ~Panicked
    /\ Len(wRequestChan) > 0
    /\ delivered' = Append(delivered, Head(wRequestChan))
    /\ pc' = [t \in Threads |->
                IF pc[t] = "push" /\ rq[t] = Head(wRequestChan)
                THEN "sent" ELSE pc[t]]
    /\ wRequestChan' = Tail(wRequestChan)
    /\ UNCHANGED <<impl, minThreads, reqs, nextId, requestChan, injRet,
                   retBefore, rq, provided, by, fc, waiter, afterCalls,
                   afterArg>>
    /\ UNCHANGED completed
    /\ UNCHANGED lifeVars
    /\ UNCHANGED <<regVars, poolVars, eqVars>>

\* Whether the loop spawns the waiting goroutine after the push.
SpawnsWaiter(r) == r.AfterFunc

\* A loop that waits for fc.done and calls AfterFunc itself before the
\* next iteration.
SpawnInline(t) ==
    /\ ~Panicked
    /\ pc[t] = "sent"
    /\ SpawnsWaiter(reqs[rq[t]]) => fc[rq[t]].done
    /\ afterCalls' = IF SpawnsWaiter(reqs[rq[t]])
                     THEN [afterCalls EXCEPT ![rq[t]] = @ + 1] ELSE afterCalls
    /\ afterArg' = IF SpawnsWaiter(reqs[rq[t]])
                   THEN [afterArg EXCEPT ![rq[t]] = fc[rq[t]].handlerReturn]
                   ELSE afterArg
    /\ waiter' = IF SpawnsWaiter(reqs[rq[t]])
                 THEN [waiter EXCEPT ![rq[t]] = "returned"] ELSE waiter
    /\ pc' = [pc EXCEPT ![t] = "provide"]
    /\ rq' = [rq EXCEPT ![t] = 0]
    /\ UNCHANGED <<impl, minThreads, reqs, nextId, requestChan, injRet,
                   retBefore, provided, by, fc, wRequestChan, delivered>>
    /\ UNCHANGED completed
    /\ UNCHANGED lifeVars
    /\ UNCHANGED <<regVars, poolVars, eqVars>>

\* if rq.AfterFunc != nil { go func() {...}() }, then the next iteration.
Spawn(t) ==
    /\ ~Panicked
    /\ pc[t] = "sent"
    /\ waiter' = IF SpawnsWaiter(reqs[rq[t]])
                 THEN [waiter EXCEPT ![rq[t]] = "waiting"] ELSE waiter
    /\ pc' = [pc EXCEPT ![t] = "provide"]
    /\ rq' = [rq EXCEPT ![t] = 0]
    /\ UNCHANGED <<impl, minThreads, reqs, nextId, requestChan, injRet,
                   retBefore, provided, by, fc, wRequestChan, delivered,
                   afterCalls, afterArg>>
    /\ UNCHANGED completed
    /\ UNCHANGED lifeVars
    /\ UNCHANGED <<regVars, poolVars, eqVars>>

\* A goroutine that does not wait for fc.done.
DoneObservedAtOnce(c) == TRUE

\* Whether the goroutine's `<-fc.done` returns.
DoneObserved(c) == c.done

\* A goroutine that closes over a context variable shared by the loop's
\* iterations: it reads the context dispatched last.
CallbackReturnShared(id) == fc[delivered[Len(delivered)]].handlerReturn

\* The value the goroutine passes to AfterFunc.
CallbackReturn(id) == fc[id].handlerReturn

\* A single dispatcher that calls the AfterFuncs one after the other in
\* dispatch order: a callback waits for those of the contexts dispatched
\* before it.
WaiterCallInOrder(id) ==
    /\ ~Panicked
    /\ waiter[id] = "waiting"
    /\ DoneObserved(fc[id])
    /\ \A a \in ReqIds :
          (InSeq(delivered, a) /\ Pos(delivered, a) < Pos(delivered, id)
             /\ SpawnsWaiter(reqs[a])) => waiter[a] = "returned"
    /\ afterCalls' = [afterCalls EXCEPT ![id] = @ + 1]
    /\ afterArg' = [afterArg EXCEPT ![id] = CallbackReturn(id)]
    /\ waiter' = [waiter EXCEPT ![id] = "calling"]
    /\ UNCHANGED <<impl, minThreads, reqs, nextId, requestChan, injRet,
                   retBefore, pc, rq, provided, by, fc, wRequestChan,
                   delivered>>
    /\ UNCHANGED completed
    /\ UNCHANGED lifeVars
    /\ UNCHANGED <<regVars, poolVars, eqVars>>

\* The goroutine: <-fc.done; rq.AfterFunc(fc.handlerReturn).
WaiterCall(id) ==
    /\ ~Panicked
    /\ waiter[id] = "waiting"
    /\ DoneObserved(fc[id])
    /\ afterCalls' = [afterCalls EXCEPT ![id] = @ + 1]
    /\ afterArg' = [afterArg EXCEPT ![id] = CallbackReturn(id)]
    /\ waiter' = [waiter EXCEPT ![id] = "calling"]
    /\ UNCHANGED <<impl, minThreads, reqs, nextId, requestChan, injRet,
                   retBefore, pc, rq, provided, by, fc, wRequestChan,
                   delivered>>
    /\ UNCHANGED completed
    /\ UNCHANGED lifeVars
    /\ UNCHANGED <<regVars, poolVars, eqVars>>

\* AfterFunc returns and the goroutine ends.
AfterFuncReturn(id) ==
    /\ ~Panicked
    /\ waiter[id] = "calling"
    /\ waiter' = [waiter EXCEPT ![id] = "returned"]
    /\ UNCHANGED <<impl, minThreads, reqs, nextId, requestChan, injRet,
                   retBefore, pc, rq, provided, by, fc, wRequestChan,
                   delivered, afterCalls, afterArg>>
    /\ UNCHANGED completed
    /\ UNCHANGED lifeVars
    /\ UNCHANGED <<regVars, poolVars, eqVars>>

\* ------------------------------------------------------ execution engine

\* The engine finishes a context it received: it stores the handler's
\* return value and then closes fc.done.
EngineComplete(id, v) ==
    /\ ~Panicked
    /\ InSeq(delivered, id)
    /\ ~fc[id].done
    /\ fc' = [fc EXCEPT ![id].handlerReturn = v, ![id].done = TRUE]
    /\ completed' = Append(completed, id)
    /\ UNCHANGED <<impl, minThreads, reqs, nextId, requestChan, injRet,
                   retBefore, pc, rq, provided, by, wRequestChan, delivered,
                   waiter, afterCalls, afterArg>>
    /\ UNCHANGED lifeVars
    /\ UNCHANGED <<regVars, poolVars, eqVars>>

\* ------------------------------------------------------ thread lifecycle
\* An increment that is not atomic: it adds one to the value the counter
\* had before any activation and so loses a concurrent update.
ThreadActivatedNotificationStale == activatedCount' = 0 + 1

\* w.activatedCount.Add(1)
ThreadActivatedNotification == activatedCount' = activatedCount + 1

\* A drain notification that counts the thread twice.
ThreadDrainNotificationTwice == drainCount' = drainCount + 2

\* w.drainCount.Add(1)
ThreadDrainNotification == drainCount' = drainCount + 1

\* A deactivation that leaves drainCount alone.
ThreadDeactivatedNotificationNoDrain == drainCount' = drainCount

\* w.drainCount.Add(-1), the first atomic of ThreadDeactivatedNotification
ThreadDeactivatedNotificationDrain == drainCount' = drainCount - 1

\* w.activatedCount.Add(-1), the second atomic of ThreadDeactivatedNotification
ThreadDeactivatedNotificationActivated == activatedCount' = activatedCount - 1

\* The pool manager assigns thread t to the worker: the notification is
\* called and the pipe loop of t is started.
Activate(t) ==
    /\ ~Panicked
    /\ life[t] = "Inactive"
    /\ ThreadActivatedNotification
    /\ life' = [life EXCEPT ![t] = "Active"]
    /\ pc' = [pc EXCEPT ![t] = "provide"]
    /\ UNCHANGED <<impl, minThreads, drainCount, skipped>>
    /\ UNCHANGED pipeVars
    /\ UNCHANGED <<regVars, poolVars, eqVars>>

\* The pool manager wants the thread back.
Drain(t) ==
    /\ ~Panicked
    /\ life[t] = "Active"
    /\ ThreadDrainNotification
    /\ life' = [life EXCEPT ![t] = "Draining"]
    /\ UNCHANGED <<impl, minThreads, pc, activatedCount, skipped>>
    /\ UNCHANGED pipeVars
    /\ UNCHANGED <<regVars, poolVars, eqVars>>

\* The thread is returned to the pool: ThreadDeactivatedNotification
\* starts (after a drain, or directly from Active).
DeactivateBegin(t) ==
    /\ ~Panicked
    /\ life[t] \in {"Active", "Draining"}
    /\ ThreadDeactivatedNotificationDrain
    /\ skipped' = [skipped EXCEPT ![t] = (life[t] = "Active")]
    /\ life' = [life EXCEPT ![t] = "Deactivating"]
    /\ UNCHANGED <<impl, minThreads, pc, activatedCount>>
    /\ UNCHANGED pipeVars
    /\ UNCHANGED <<regVars, poolVars, eqVars>>

\* ThreadDeactivatedNotification ends.
DeactivateEnd(t) ==
    /\ ~Panicked
    /\ life[t] = "Deactivating"
    /\ ThreadDeactivatedNotificationActivated
    /\ life' = [life EXCEPT ![t] = "Returned"]
    /\ UNCHANGED <<impl, minThreads, pc, drainCount, skipped>>
    /\ UNCHANGED pipeVars
    /\ UNCHANGED <<regVars, poolVars, eqVars>>

\* ------------------------------------------------------------- registry
\* defaultWorker.Name() and defaultWorker.GetMinThreads().
Name(w) == w.name

\* A handle that reports no minimum.
GetMinThreadsZero(w) == 0

GetMinThreads(w) == w.minThreads

\* A registry whose Lock never waits.
MutexFreeAlways == TRUE

\* extensionWorkersMutex.Lock() returns only while nobody holds the mutex.
MutexFree == extensionWorkersMutex = 0

workerVars == <<impl, minThreads, pc, pipeVars, lifeVars>>

\* A goroutine calls RegisterWorker(w).
RegisterWorker(c, w) ==
    /\ regPc[c] = "idle"
    /\ pool = "stopped"
    /\ regArg' = [regArg EXCEPT ![c] = w]
    /\ regPc' = [regPc EXCEPT ![c] = "lock"]
    /\ UNCHANGED <<extensionWorkers, extensionWorkersMutex, locked, registered>>
    /\ UNCHANGED <<workerVars, poolVars, eqVars>>

\* extensionWorkersMutex.Lock()
RegisterWorkerLock(c) ==
    /\ regPc[c] = "lock"
    /\ MutexFree
    /\ extensionWorkersMutex' = c
    /\ regPc' = [regPc EXCEPT ![c] = "store"]
    /\ locked' = Append(locked, c)
    /\ UNCHANGED <<extensionWorkers, regArg, registered>>
    /\ UNCHANGED <<workerVars, poolVars, eqVars>>

\* extensionWorkers[worker.Name()] = worker
RegisterWorkerStore(c) ==
    /\ regPc[c] = "store"
    /\ extensionWorkers' =
           [extensionWorkers EXCEPT ![Name(regArg[c])] = regArg[c]]
    /\ regPc' = [regPc EXCEPT ![c] = "unlock"]
    /\ UNCHANGED <<extensionWorkersMutex, regArg, locked, registered>>
    /\ UNCHANGED <<workerVars, poolVars, eqVars>>

\* The deferred extensionWorkersMutex.Unlock() runs; the call has not
\* returned to its caller yet.
RegisterWorkerUnlock(c) ==
    /\ regPc[c] = "unlock"
    /\ extensionWorkersMutex' = 0
    /\ regPc' = [regPc EXCEPT ![c] = "return"]
    /\ UNCHANGED <<extensionWorkers, regArg, locked, registered>>
    /\ UNCHANGED <<workerVars, poolVars, eqVars>>

\* RegisterWorker returns to its caller: the call is complete.
RegisterWorkerReturn(c) ==
    /\ regPc[c] = "return"
    /\ regPc' = [regPc EXCEPT ![c] = "done"]
    /\ registered' = Append(registered, c)
    /\ UNCHANGED <<extensionWorkers, extensionWorkersMutex, regArg, locked>>
    /\ UNCHANGED <<workerVars, poolVars, eqVars>>

\* -------------------------------------------------------- pool startup
RECURSIVE SumMinThreads(_)
\* Total of GetMinThreads() over the registered workers of the names S.
SumMinThreads(S) ==
    IF S = {} THEN 0
    ELSE LET n == CHOOSE x \in S : TRUE
         IN  GetMinThreads(extensionWorkers[n]) + SumMinThreads(S \ {n})

\* The pool starts with a budget of n threads, once registration is over:
\* it enumerates the registry and fails when the minimums do not fit.
PoolInit(n) ==
    /\ pool = "stopped"
    /\ \A c \in Callers : regPc[c] \in {"idle", "done"}
    /\ numThreads' = n
    /\ pool' = IF SumMinThreads(Names) > n THEN "fatal" ELSE "starting"
    /\ UNCHANGED <<reserved, workerVars, regVars, eqVars>>

\* The pool activates one more thread for the worker registered as name.
PoolActivate(name) ==
    /\ pool = "starting"
    /\ extensionWorkers[name] # NoWorker
    /\ reserved[name] < GetMinThreads(extensionWorkers[name])
    /\ reserved' = [reserved EXCEPT ![name] = @ + 1]
    /\ UNCHANGED <<pool, numThreads, workerVars, regVars, eqVars>>

\* Startup succeeds once every worker has its minimum.
PoolReady ==
    /\ pool = "starting"
    /\ \A name \in Names :
           reserved[name] >= GetMinThreads(extensionWorkers[name])
    /\ pool' = "ready"
    /\ UNCHANGED <<numThreads, reserved, workerVars, regVars, eqVars>>

\* ------------------------------------------------- the two loops abreast
\* The outcome and the context of loop i for the value r.
OutcomeOf(i, r) ==
    IF i = "startWorker" THEN startWorkerOutcome(r)
    ELSE startExternalWorkerPipeOutcome(r)

ContextOf(i, r) ==
    IF i = "startWorker" THEN startWorkerContext(r)
    ELSE startExternalWorkerPipeContext(r)

\* ProvideRequest returns r to both loops; the engine will return v for it.
Feed(r, v) ==
    /\ Len(fed) < MaxFed
    /\ fed' = Append(fed, r)
    /\ ret' = Append(ret, v)
    /\ UNCHANGED <<loopPos, loopPanic, pushed, called>>
    /\ UNCHANGED <<workerVars, regVars, poolVars>>

\* One iteration of loop i on the next value: it panics, drops the value,
\* or pushes the context (the engine receives it).
Iterate(i) ==
    /\ ~loopPanic[i]
    /\ loopPos[i] < Len(fed)
    /\ LET r == fed[loopPos[i] + 1]
           o == OutcomeOf(i, r)
       IN  /\ loopPanic' = [loopPanic EXCEPT ![i] = (o = "panic")]
           /\ pushed' = IF o = "push"
                        THEN [pushed EXCEPT ![i] = Append(@, ContextOf(i, r))]
                        ELSE pushed
    /\ loopPos' = [loopPos EXCEPT ![i] = @ + 1]
    /\ UNCHANGED <<fed, ret, called>>
    /\ UNCHANGED <<workerVars, regVars, poolVars>>

\* The values of loop i that were pushed with a waiting goroutine.
Awaited(i) ==
    {k \in 1..loopPos[i] :
        /\ OutcomeOf(i, fed[k]) = "push"
        /\ SpawnsWaiter(fed[k])}

\* The engine completes the context of the k-th value with ret[k] and the
\* goroutine of loop i calls its AfterFunc, unless the process is gone.
Callback(i, k) ==
    /\ ~loopPanic[i]
    /\ k \in Awaited(i)
    /\ \A c \in called[i] : c[1] # k
    /\ called' = [called EXCEPT ![i] = @ \cup {<<k, ret[k]>>}]
    /\ UNCHANGED <<fed, ret, loopPos, loopPanic, pushed>>
    /\ UNCHANGED <<workerVars, regVars, poolVars>>

\* ----------------------------------------------------------------- Next
Next ==
    \/ \E r \in WorkerRequest(nextId) : InjectRequest(r)
    \/ \E t \in Threads : ProvideRequest(t)
    \/ \E t \in Threads : Adapt(t)
    \/ EngineReceive
    \/ \E t \in Threads : Spawn(t)
    \/ \E id \in ReqIds : WaiterCall(id)
    \/ \E id \in ReqIds : AfterFuncReturn(id)
    \/ \E id \in ReqIds, v \in ReturnValues : EngineComplete(id, v)
    \/ \E t \in Threads : Activate(t)
    \/ \E t \in Threads : Drain(t)
    \/ \E t \in Threads : DeactivateBegin(t)
    \/ \E t \in Threads : DeactivateEnd(t)

Spec == Init /\ [][Next]_vars

\* -------------------------------------------------------------- startup
\* Registration of workers by concurrent goroutines, then pool startup.
NextStartup ==
    \/ \E c \in Callers : \E w \in Workers(c) : RegisterWorker(c, w)
    \/ \E c \in Callers : RegisterWorkerLock(c)
    \/ \E c \in Callers : RegisterWorkerStore(c)
    \/ \E c \in Callers : RegisterWorkerUnlock(c)
    \/ \E c \in Callers : RegisterWorkerReturn(c)
    \/ \E n \in 0..MaxBudget : PoolInit(n)
    \/ \E name \in Names : PoolActivate(name)
    \/ PoolReady

StartupSpec == Init /\ [][NextStartup]_vars

\* ---------------------------------------------------------- equivalence
\* startWorker and startExternalWorkerPipe fed the same values, with the
\* same engine.
NextAbreast ==
    \/ \E r \in WorkerRequest(Len(fed) + 1), v \in ReturnValues : Feed(r, v)
    \/ \E i \in Impls : Iterate(i)
    \/ \E i \in Impls, k \in 1..MaxFed : Callback(i, k)

AbreastSpec == Init /\ [][NextAbreast]_vars

\* ------------------------------------------------------------- liveness
\* The steps of a worker that keeps the threads it was given: producers,
\* pipe loops, engine and waiters, and the pool activating threads.
NextServing ==
    \/ \E r \in WorkerRequest(nextId) : InjectRequest(r)
    \/ \E t \in Threads : ProvideRequest(t)
    \/ \E t \in Threads : Adapt(t)
    \/ EngineReceive
    \/ \E t \in Threads : Spawn(t)
    \/ \E id \in ReqIds : WaiterCall(id)
    \/ \E id \in ReqIds : AfterFuncReturn(id)
    \/ \E id \in ReqIds, v \in ReturnValues : EngineComplete(id, v)
    \/ \E t \in Threads : Activate(t)

\* The Go scheduler runs every goroutine that can take a step (pipe loops
\* and waiters), the pool activates the worker's threads, and the engine
\* eventually receives every pushed context and eventually completes it.
\* Producers and callbacks are under no obligation.
Fairness ==
    /\ \A t \in Threads : WF_vars(Activate(t))
    /\ \A t \in Threads : WF_vars(ProvideRequest(t))
    /\ \A t \in Threads : WF_vars(Adapt(t))
    /\ \A t \in Threads : WF_vars(Spawn(t))
    /\ WF_vars(EngineReceive)
    /\ \A id \in ReqIds : WF_vars(\E v \in ReturnValues : EngineComplete(id, v))
    /\ \A id \in ReqIds : WF_vars(WaiterCall(id))

LiveSpec == Init /\ [][NextServing]_vars /\ Fairness

\* ------------------------------------------------------------- notions
\* Request id has been handed to InjectRequest.
Injected(id) == id < nextId

\* The loop that pulled id is past the adaptation of id.
Adapted(id) ==
    InSeq(provided, id) /\ \A t \in Threads : rq[t] = id => pc[t] # "adapt"

\* The loop that pulled id is done with it (dropped or dispatched it).
Handled(id) == InSeq(provided, id) /\ \A t \in Threads : rq[t] # id

\* The request is an absent unit of work: a nil WorkerRequest or a nil payload.
Absent(r) == r.ptr = "nil" \/ r.Request = "nil"

\* The request has a payload that fails adaptation.
Malformed(r) == r.ptr = "set" /\ r.Request \in {"malformed", "noctx"}

\* ---------------------------------------------------------------- claims

\* C1: AfterFunc is invoked at most once per request, only when the
\* request's context was dispatched and its done signal has fired; once the
\* waiter has run, it was invoked exactly once; a dispatched request with
\* an AfterFunc whose loop has moved on has a waiter.
C1_AfterFuncOnceAfterDone ==
    \A id \in ReqIds :
        /\ afterCalls[id] <= 1
        /\ afterCalls[id] >= 1 =>
              /\ InSeq(delivered, id)
              /\ fc[id].exists /\ fc[id].done
              /\ reqs[id].AfterFunc
        /\ ~InSeq(delivered, id) => afterCalls[id] = 0 /\ waiter[id] = "none"
        /\ waiter[id] \in {"calling", "returned"} <=> afterCalls[id] = 1
        /\ (InSeq(delivered, id) /\ Handled(id) /\ reqs[id].AfterFunc)
              => waiter[id] # "none"

\* C1 witness: a context completed before its waiter was spawned, and a
\* request whose AfterFunc has been called once and has returned.
C1_Witness ==
    \E id \in ReqIds :
        /\ waiter[id] = "returned" /\ afterCalls[id] = 1
        /\ \E other \in ReqIds :
              /\ fc[other].done /\ waiter[other] = "none"
              /\ reqs[other].AfterFunc /\ ~Handled(other)

\* C2 (as claimed): no pipe loop ends because of an absent unit of work: a
\* loop holding a nil WorkerRequest or a nil payload has not panicked.
C2_AbsentWorkNeverEndsLoop ==
    \A t \in Threads :
        (rq[t] # 0 /\ Absent(reqs[rq[t]])) => pc[t] # "panic"

\* C3 (as claimed): for every absent unit of work a loop has adapted there
\* is a synthesized context carrying the request's sink and parameters, and
\* the loop pushes it onto the dispatch channel.
C3_AbsentWorkIsDispatched ==
    \A id \in ReqIds :
        (Adapted(id) /\ Absent(reqs[id])) =>
            /\ fc[id].exists /\ fc[id].synthetic
            /\ fc[id].responseWriter = reqs[id].Response
            /\ fc[id].handlerParameters = reqs[id].CallbackParameters
            /\ \/ InSeq(delivered, id)
               \/ \E t \in Threads : rq[t] = id /\ pc[t] = "push"

\* C4: a unit whose payload fails adaptation is dropped: no context, no
\* push, no waiter, no AfterFunc call, and the loop that holds it is still
\* running; the well-formed units a loop is done with were all dispatched.
C4_MalformedDropped ==
    /\ \A id \in ReqIds :
          (Injected(id) /\ Malformed(reqs[id])) =>
              /\ ~fc[id].exists
              /\ ~InSeq(delivered, id)
              /\ waiter[id] = "none"
              /\ afterCalls[id] = 0
              /\ \A t \in Threads : rq[t] = id => pc[t] = "adapt"
    /\ \A id \in ReqIds :
          (Handled(id) /\ reqs[id].ptr = "set" /\ reqs[id].Request = "ok") =>
              InSeq(delivered, id)

\* C4 witness: a loop dropped a malformed unit that carried an AfterFunc
\* and afterwards dispatched a well-formed one.
C4_Witness ==
    \E bad, good \in ReqIds :
        /\ Malformed(reqs[bad]) /\ reqs[bad].AfterFunc /\ Handled(bad)
        /\ reqs[good].ptr = "set" /\ reqs[good].Request = "ok"
        /\ by[bad] = by[good]
        /\ InSeq(provided, good) /\ Pos(provided, bad) < Pos(provided, good)
        /\ InSeq(delivered, good)

\* C5: while every deactivation so far followed a drain, a thread whose
\* sequence Activated; Drain; Deactivated has finished contributes nothing
\* to either counter: the counters count only the sequences in progress,
\* and both are back at their initial value when none is.
C5_LifecycleNetZero ==
    (\A t \in Threads : ~skipped[t]) =>
        /\ activatedCount =
              Cardinality({t \in Threads :
                              life[t] \in {"Active", "Draining", "Deactivating"}})
        /\ drainCount = Cardinality({t \in Threads : life[t] = "Draining"})
        /\ (\A t \in Threads : life[t] \in {"Inactive", "Returned"})
              => activatedCount = 0 /\ drainCount = 0

\* C5 witness: every thread ran the full sequence.
C5_Witness ==
    /\ \A t \in Threads : life[t] = "Returned" /\ ~skipped[t]
    /\ activatedCount = 0 /\ drainCount = 0

\* C6 (as claimed): contexts reach the dispatch channel in the order
\* ProvideRequest returned their requests, whatever the number of threads.
C6_DeliveredInProvidedOrder ==
    \A i, j \in 1..Len(delivered) :
        i < j => Pos(provided, delivered[i]) < Pos(provided, delivered[j])

\* C6 (amended): the contexts of one pipe loop reach the dispatch channel
\* in the order ProvideRequest returned their requests to that loop.
C6_DeliveredInProvidedOrderPerLoop ==
    \A i, j \in 1..Len(delivered) :
        (i < j /\ by[delivered[i]] = by[delivered[j]])
            => Pos(provided, delivered[i]) < Pos(provided, delivered[j])

\* C6 witness: one loop dispatched two requests.
C6_Witness ==
    /\ Len(delivered) >= 2
    /\ by[delivered[1]] = by[delivered[2]]
    /\ delivered[1] # delivered[2]

\* C7: if InjectRequest(a) returned before InjectRequest(b) started and b
\* has been returned by ProvideRequest, then a was returned before b.
C7_Fifo ==
    \A a, b \in ReqIds :
        (Injected(b) /\ a \in retBefore[b] /\ InSeq(provided, b))
            => InSeq(provided, a) /\ Pos(provided, a) < Pos(provided, b)

\* C7 witness: on the buffered worker InjectRequest(a) returned before
\* InjectRequest(b) started, and ProvideRequest returned a, then b.
C7_Witness ==
    \E a, b \in ReqIds :
        /\ Capacity > 0
        /\ a \in retBefore[b]
        /\ provided = <<a, b>>

\* C8: InjectRequest never drops or duplicates work: every injected request
\* is in exactly one place (blocked sender, buffer, or returned once by
\* ProvideRequest); its call has returned exactly when it is no longer a
\* blocked sender; senders only block on a full buffer.
C8_NoLossNoDuplication ==
    /\ \A id \in ReqIds :
          Injected(id) =>
              /\ Occ(requestChan.buf, id) + Occ(requestChan.sendq, id)
                    + Occ(provided, id) = 1
              /\ (id \in injRet) <=> (Occ(requestChan.sendq, id) = 0)
    /\ Len(requestChan.buf) <= Capacity
    /\ Len(requestChan.sendq) > 0 => Len(requestChan.buf) = Capacity

\* C8 witness: the buffer is full, a producer is blocked behind it and its
\* InjectRequest call has not returned.
C8_Witness ==
    /\ Capacity > 0
    /\ Len(requestChan.buf) = Capacity
    /\ Len(requestChan.sendq) > 0
    /\ \E id \in ReqIds : Injected(id) /\ id \notin injRet

\* C9 (as claimed): the default worker buffers minThreads requests: with no
\* ProvideRequest made, the first minThreads InjectRequest calls return.
C9_DefaultQueueHoldsMinThreads ==
    (impl = "startWorker" /\ provided = <<>>)
        => Cardinality(injRet) = Min(nextId - 1, minThreads)

\* C9 (amended): the default worker's channel is unbuffered, so an
\* InjectRequest call returns only once ProvideRequest has returned its
\* request; the mock worker extension buffers minThreads requests.
C9_DefaultQueueUnbuffered ==
    /\ impl = "startWorker" =>
          /\ \A id \in injRet : InSeq(provided, id)
          /\ requestChan.buf = <<>>
    /\ (impl = "startExternalWorkerPipe" /\ provided = <<>>)
          => Cardinality(injRet) = Min(nextId - 1, minThreads)

\* C9 witness: on the default worker a producer is blocked though nothing
\* else was injected before it.
C9_Witness ==
    /\ impl = "startWorker"
    /\ nextId = 2 /\ injRet = {} /\ requestChan.sendq = <<1>>
    /\ \E t \in Threads : pc[t] = "provide"

\* C10: a loop whose push was accepted can go on to its next iteration,
\* and a loop at ProvideRequest can pull pending work, whatever the state
\* of the contexts and AfterFuncs of earlier requests.
C10_CallbackNeverStallsIntake ==
    \A t \in Threads :
        /\ (~Panicked /\ pc[t] = "sent") => ENABLED Spawn(t)
        /\ (~Panicked /\ pc[t] = "provide" /\ CanRecv(requestChan))
              => ENABLED ProvideRequest(t)

\* C10 witness: a loop dispatched a later request although an earlier one
\* of its requests has an AfterFunc and has not completed.
C10_Witness ==
    \E a, b \in ReqIds :
        /\ a # b /\ by[a] = by[b] /\ by[a] # 0
        /\ InSeq(delivered, a) /\ InSeq(delivered, b)
        /\ Pos(delivered, a) < Pos(delivered, b)
        /\ reqs[a].AfterFunc /\ ~fc[a].done /\ waiter[a] = "waiting"

\* C11: under fair scheduling, with the worker's threads activated and an
\* engine that eventually receives and completes every context, every
\* request injected with a well-formed payload and an AfterFunc eventually
\* has its AfterFunc invoked.
C11_AfterFuncEventuallyInvoked ==
    \A id \in ReqIds :
        (Injected(id) /\ reqs[id].Request = "ok" /\ reqs[id].AfterFunc)
            ~> (afterCalls[id] >= 1)

\* The same liveness with the panic of startWorker set aside: it holds, so
\* the nil dereference is the only way a callback is lost.
AfterFuncEventuallyInvokedUnlessPanic ==
    \A id \in ReqIds :
        (Injected(id) /\ reqs[id].Request = "ok" /\ reqs[id].AfterFunc)
            ~> (afterCalls[id] >= 1 \/ Panicked)

\* The positions in `registered` of the calls for name n that returned.
Returned(n) ==
    {i \in 1..Len(registered) : Name(regArg[registered[i]]) = n}

\* The handle the last returned RegisterWorker call for name n passed.
LastRegistered(n) ==
    IF Returned(n) = {} THEN NoWorker
    ELSE regArg[registered[CHOOSE i \in Returned(n) :
                               \A j \in Returned(n) : j <= i]]

\* The positions in `locked` of the calls for name n that got the mutex.
Locked(n) ==
    {i \in 1..Len(locked) : Name(regArg[locked[i]]) = n}

\* The handle passed by the last call for name n that got the mutex.
LastLocked(n) ==
    IF Locked(n) = {} THEN NoWorker
    ELSE regArg[locked[CHOOSE i \in Locked(n) : \A j \in Locked(n) : j <= i]]

\* No RegisterWorker call is in progress.
NoCallInProgress == \A c \in Callers : regPc[c] \in {"idle", "done"}

\* C12 (as claimed): after any interleaving of concurrent RegisterWorker
\* calls the registry holds exactly the names registered, each mapped to
\* the handle of the last RegisterWorker call for that name to complete
\* (to return).
C12_RegistryLastCompletedWins ==
    NoCallInProgress =>
        \A n \in Names : extensionWorkers[n] = LastRegistered(n)

\* C12 (amended): at most one call is between Lock and Unlock; whenever no
\* call holds the mutex without having stored, the registry maps every
\* name to the handle of the last call for that name that acquired the
\* mutex, whatever the order in which the calls return; after any
\* interleaving the registry holds exactly the names of the calls made,
\* one entry each.
C12_RegistryLastLockWins ==
    /\ Cardinality({c \in Callers : regPc[c] \in {"store", "unlock"}}) <= 1
    /\ (\A c \in Callers : regPc[c] # "store") =>
          \A n \in Names : extensionWorkers[n] = LastLocked(n)
    /\ NoCallInProgress =>
          \A n \in Names :
              /\ (extensionWorkers[n] # NoWorker) <=> (Returned(n) # {})
              /\ extensionWorkers[n] # NoWorker
                    => Name(extensionWorkers[n]) = n

\* C12 witness: three calls have returned, two of them for the same name
\* with different handles, one for another name; of the two, the call that
\* acquired the mutex first returned last and the registry holds the
\* handle of the other.
C12_Witness ==
    /\ Len(registered) = 3
    /\ \A n \in Names : extensionWorkers[n] # NoWorker
    /\ \E n \in Names :
          /\ Cardinality(Returned(n)) = 2
          /\ LastRegistered(n) # LastLocked(n)
          /\ extensionWorkers[n] = LastLocked(n)

\* Threads whose ThreadActivatedNotification has completed, and threads
\* whose ThreadDeactivatedNotification has completed.
Activations == {t \in Threads : life[t] # "Inactive"}
Deactivations == {t \in Threads : life[t] = "Returned"}

\* C13: activatedCount is the number of completed activations minus the
\* number of completed deactivations, whatever the interleaving of the
\* notifications of different threads; once minThreads > 0 threads have
\* been activated and none is being or has been deactivated,
\* activatedCount >= minThreads.
C13_ActivatedCountExact ==
    /\ activatedCount = Cardinality(Activations) - Cardinality(Deactivations)
    /\ ( /\ minThreads > 0
         /\ Cardinality(Activations) >= minThreads
         /\ \A t \in Threads : life[t] \notin {"Deactivating", "Returned"} )
       => activatedCount >= minThreads

\* C13 witness: every thread has been activated, none deactivated, and the
\* counter has every activation.
C13_Witness ==
    /\ minThreads > 0
    /\ \A t \in Threads : life[t] \in {"Active", "Draining"}
    /\ activatedCount = NumThreads
    /\ NumThreads >= 2

RECURSIVE SumDeclared(_)
\* Total of the minimums declared by the registered workers of the names S.
SumDeclared(S) ==
    IF S = {} THEN 0
    ELSE LET n == CHOOSE x \in S : TRUE
         IN  extensionWorkers[n].minThreads + SumDeclared(S \ {n})

\* C14: when the minimums of the registered workers sum to more than the
\* thread budget, startup ends in a fatal error and no worker is given a
\* thread; startup goes on only when the minimums fit, and when it has
\* succeeded every registered worker has at least its minimum activated.
C14_StartupReservation ==
    /\ (pool # "stopped" /\ SumDeclared(Names) > numThreads)
           => pool = "fatal" /\ \A n \in Names : reserved[n] = 0
    /\ pool = "fatal" => SumDeclared(Names) > numThreads
    /\ pool = "ready"
           => \A n \in Names : reserved[n] >= extensionWorkers[n].minThreads

\* C14 witness: two workers are registered, each minimum fits the budget
\* alone, their sum does not, and startup has failed.
C14_Witness ==
    /\ pool = "fatal"
    /\ \A n \in Names : /\ extensionWorkers[n].minThreads >= 1
                        /\ extensionWorkers[n].minThreads <= numThreads
    /\ SumDeclared(Names) > numThreads

\* Startup has succeeded with two workers holding their minimums.
C14_WitnessReady ==
    /\ pool = "ready"
    /\ \A n \in Names : /\ extensionWorkers[n].minThreads >= 1
                        /\ reserved[n] = extensionWorkers[n].minThreads

\* C15: whenever no notification call is in progress, activatedCount is
\* the number of pairings that are Active or Draining and drainCount is the
\* number of Draining pairings (so drainCount is never negative), the
\* direct transition from Active to Inactive included.
C15_CountersMatchLifecycle ==
    (\A t \in Threads : life[t] # "Deactivating") =>
        /\ activatedCount =
              Cardinality({t \in Threads : life[t] \in {"Active", "Draining"}})
        /\ drainCount = Cardinality({t \in Threads : life[t] = "Draining"})
        /\ drainCount >= 0

\* C16: as long as every thread follows Inactive -> Active -> Draining ->
\* Inactive, every reachable state, the one between the two decrements of
\* ThreadDeactivatedNotification included, has
\* 0 <= drainCount <= activatedCount <= NumThreads.
C16_CounterBounds ==
    (\A t \in Threads : ~skipped[t]) =>
        /\ 0 <= drainCount
        /\ drainCount <= activatedCount
        /\ activatedCount <= NumThreads

\* C16 witness: a thread is between the two decrements of its
\* ThreadDeactivatedNotification while the other thread is draining.
C16_Witness ==
    /\ \A t \in Threads : ~skipped[t]
    /\ \E t, u \in Threads :
          /\ life[t] = "Deactivating"
          /\ life[u] = "Draining"
    /\ drainCount = 1
    /\ activatedCount = 2

\* C17: the goroutine reads fc.handlerReturn only after it observed
\* fc.done, and the value AfterFunc gets is the handlerReturn the engine
\* stored in the context of that same request; no context has a
\* handlerReturn before the engine completed it.
C17_CallbackGetsOwnReturn ==
    \A id \in ReqIds :
        /\ afterCalls[id] >= 1
              => /\ fc[id].done
                 /\ afterArg[id] = fc[id].handlerReturn
                 /\ afterArg[id] \in ReturnValues
        /\ ~fc[id].done => fc[id].handlerReturn = 0 /\ afterArg[id] = 0

\* C17 witness: two requests completed with different return values, the
\* one dispatched first had its AfterFunc called after the other was
\* dispatched, and each AfterFunc got its own request's value.
C17_Witness ==
    \E a, b \in ReqIds :
        /\ delivered = <<a, b>>
        /\ afterCalls[a] = 1 /\ afterCalls[b] = 1
        /\ fc[a].handlerReturn # fc[b].handlerReturn
        /\ afterArg[a] = fc[a].handlerReturn
        /\ afterArg[b] = fc[b].handlerReturn

\* Requests a loop pulled for dispatch that the engine has not received.
Pending ==
    {id \in ReqIds : /\ InSeq(provided, id)
                     /\ ~InSeq(delivered, id)
                     /\ Outcome(reqs[id]) = "push"}

\* Threads whose pipe loop has been started.
Running == {t \in Threads : pc[t] # "off"}

\* C18: a pipe loop does not call ProvideRequest again while its push is
\* blocked, so every request pulled and not yet accepted by the engine is
\* the one request held by the loop that pulled it, and there are at most
\* as many such requests as running loops.
C18_BackPressure ==
    /\ \A id \in Pending :
          /\ rq[by[id]] = id
          /\ pc[by[id]] \in {"adapt", "push"}
    /\ \A t \in Threads :
          pc[t] \in {"adapt", "push"} => ~ENABLED ProvideRequest(t)
    /\ Cardinality(Pending) <= Cardinality(Running)

\* C18 witness: one loop is running, its push is blocked, and a further
\* request waits in the worker's channel without being pulled.
C18_Witness ==
    /\ Cardinality(Running) = 1
    /\ Cardinality(Pending) = 1
    /\ \E t \in Threads : pc[t] = "push" /\ rq[t] \in Pending
    /\ CanRecv(requestChan)

\* C19 (as claimed): callbacks fire independently of dispatch order, and
\* they are invoked in the order in which their contexts completed: when
\* the AfterFunc of b has been invoked, the AfterFunc of every request
\* whose context completed before b's has been invoked too.
C19_CallbacksInCompletionOrder ==
    \A a, b \in ReqIds :
        ( /\ InSeq(completed, a) /\ InSeq(completed, b)
          /\ Pos(completed, a) < Pos(completed, b)
          /\ reqs[a].AfterFunc
          /\ afterCalls[b] >= 1 )
        => afterCalls[a] >= 1

\* C19 (amended): callbacks fire independently: once the context of b has
\* completed, the goroutine waiting for it can call b's AfterFunc whatever
\* the state of the requests dispatched before b (not completed, AfterFunc
\* not returned); an AfterFunc is invoked only after its own context
\* completed.  No order between the callbacks of different requests is
\* kept.
C19_CallbacksIndependent ==
    \A b \in ReqIds :
        /\ (~Panicked /\ waiter[b] = "waiting" /\ fc[b].done)
              => ENABLED WaiterCall(b)
        /\ afterCalls[b] >= 1 => InSeq(completed, b)

\* C19 witness: b was dispatched after a, b's AfterFunc has been invoked,
\* and a, which has an AfterFunc too, has not completed.
C19_Witness ==
    \E a, b \in ReqIds :
        /\ InSeq(delivered, a) /\ InSeq(delivered, b)
        /\ Pos(delivered, a) < Pos(delivered, b)
        /\ reqs[a].AfterFunc /\ ~fc[a].done /\ waiter[a] = "waiting"
        /\ afterCalls[b] = 1

\* A step in which a lifecycle notification changed a counter.
NotificationStep ==
    activatedCount' # activatedCount \/ drainCount' # drainCount

\* A thread that has been told to drain and whose loop is about to pull
\* while the worker's channel has a request to give.
DrainingCanPull(t) ==
    /\ ~Panicked
    /\ life[t] = "Draining"
    /\ pc[t] = "provide"
    /\ CanRecv(requestChan)

\* C20: a step of ThreadActivatedNotification, ThreadDrainNotification or
\* ThreadDeactivatedNotification changes the two counters only: the
\* worker's channel and everything else of the pipeline, the registry and
\* the position of every running pipe loop stay as they are; and the loop
\* of a Draining thread pulls work exactly as that of an Active one.
C20_NotificationsChangeOnlyCounters ==
    /\ [][NotificationStep =>
             /\ UNCHANGED <<pipeVars, regVars, impl, minThreads>>
             /\ \A t \in Threads : pc[t] # "off" => pc'[t] = pc[t]]_vars
    /\ [](\A t \in Threads : DrainingCanPull(t) => ENABLED ProvideRequest(t))

\* C20 witness: a thread has been told to drain while another loop is
\* blocked in its push and a request waits in the worker's channel; the
\* draining thread's loop is about to pull it.
C20_Witness ==
    \E t, u \in Threads :
        /\ DrainingCanPull(t)
        /\ drainCount = 1
        /\ pc[u] = "push"

\* Loop i has been through every value fed and every AfterFunc it owes has
\* been called, or it has panicked.
Settled(i) ==
    \/ loopPanic[i]
    \/ /\ loopPos[i] = Len(fed)
       /\ \A k \in Awaited(i) : \E c \in called[i] : c[1] = k

\* C21: fed the same values of ProvideRequest and the same engine, the two
\* loops push the same sequence of contexts and call the same AfterFuncs
\* with the same values.
C21_LoopsEquivalent ==
    (\A i \in Impls : Settled(i)) =>
        /\ pushed["startWorker"] = pushed["startExternalWorkerPipe"]
        /\ called["startWorker"] = called["startExternalWorkerPipe"]
        /\ loopPanic["startWorker"] = loopPanic["startExternalWorkerPipe"]

\* The values on which the loops are written alike: a WorkerRequest that is
\* not nil and has a payload.
Present(r) == r.ptr # "nil" /\ r.Request # "nil"

\* The equivalence on present work: it holds, so absent work (the nil
\* WorkerRequest and the nil payload) is the only difference of the loops.
LoopsEquivalentOnPresentWork ==
    ((\A k \in 1..Len(fed) : Present(fed[k])) /\ \A i \in Impls : Settled(i)) =>
        /\ pushed["startWorker"] = pushed["startExternalWorkerPipe"]
        /\ called["startWorker"] = called["startExternalWorkerPipe"]
        /\ \A i \in Impls : ~loopPanic[i]

\* Both loops went through two well-formed values with an AfterFunc and
\* called both.
LoopsEquivalentWitness ==
    /\ Len(fed) = MaxFed
    /\ \A k \in 1..Len(fed) : fed[k].Request = "ok" /\ fed[k].AfterFunc
    /\ \A i \in Impls : Settled(i) /\ Len(pushed[i]) = MaxFed
                          /\ Cardinality(called[i]) = MaxFed

====
